---- MODULE Spec2Model ----
(***************************************************************************)
(* astrogate: star records (star.py), the catalog build and the path       *)
(* searches of NearbyStars (astrogate.py).                                 *)
(*                                                                         *)
(* Encodings.  A Python value is a record [t, s, n]: t is its type         *)
(* ("None", "str", "float"), s the characters of a str, n the value of a   *)
(* float.  Catalog distances are whole parsecs and angles are multiples of *)
(* 90 degrees, so the trigonometry of distance() is exact; a distance      *)
(* computed by distance() is carried as its square (the radicand of        *)
(* math.sqrt), which orders non-negative reals as the reals themselves.    *)
(* A Star object is named by its index in self.stars.                      *)
(*                                                                         *)
(* The catalog counts as built when set_nearby_stars has returned          *)
(* (astrogate.py 90); the export that load_hyg goes on to (lines 93-95)    *)
(* is not part of the model.  Rows carry numeric ra, dec and dist.         *)
(***************************************************************************)
EXTENDS Integers, Sequences, FiniteSets, TLC

\* Longest catalog file the model reads (number of CSV rows).
MaxStars == 3

\* NearbyStars.jump_parsecs, NearbyStars.parsec_limit (class defaults).
jump_parsecs == 2
parsec_limit == 4

-----------------------------------------------------------------------------
(* Python values *)

None == [t |-> "None", s |-> <<>>, n |-> 0]
Str(chars) == [t |-> "str", s |-> chars, n |-> 0]
Float(x) == [t |-> "float", s |-> <<>>, n |-> x]

\* bool(value) as used by `if value:`
Truthy(value) ==
    CASE value.t = "None" -> FALSE
      [] value.t = "str" -> value.s # <<>>
      [] OTHER -> value.n # 0

\* str.split(): the maximal runs of non-space characters
RECURSIVE split(_, _, _)
split(chars, word, words) ==
    IF chars = <<>>
    THEN IF word = <<>> THEN words ELSE Append(words, word)
    ELSE IF Head(chars) = " "
         THEN split(Tail(chars), <<>>, IF word = <<>> THEN words ELSE Append(words, word))
         ELSE split(Tail(chars), Append(word, Head(chars)), words)

\* sep.join(words)
RECURSIVE join(_, _)
join(sep, words) ==
    IF words = <<>> THEN <<>>
    ELSE IF Len(words) = 1 THEN Head(words)
    ELSE Head(words) \o sep \o join(sep, Tail(words))

\* str.strip() as float() applies it to its argument
RECURSIVE lstrip(_)
lstrip(chars) ==
    IF chars # <<>> /\ Head(chars) = " " THEN lstrip(Tail(chars)) ELSE chars

RECURSIVE rstrip(_)
rstrip(chars) ==
    IF chars # <<>> /\ chars[Len(chars)] = " "
    THEN rstrip(SubSeq(chars, 1, Len(chars) - 1))
    ELSE chars

DigitValue(c) ==
    CASE c = "0" -> 0 [] c = "1" -> 1 [] c = "2" -> 2 [] c = "3" -> 3 [] c = "4" -> 4
      [] c = "5" -> 5 [] c = "6" -> 6 [] c = "7" -> 7 [] c = "8" -> 8 [] c = "9" -> 9
      [] OTHER -> -1

RECURSIVE DecimalValue(_, _)
DecimalValue(chars, acc) ==
    IF chars = <<>> THEN acc
    ELSE DecimalValue(Tail(chars), 10 * acc + DigitValue(Head(chars)))

\* float(value): the number, or the exception raised.  The numerals of the
\* model are unsigned decimal integers.
float(value) ==
    CASE value.t = "float" -> [err |-> "", val |-> value]
      [] value.t = "None" -> [err |-> "TypeError", val |-> value]
      [] OTHER ->
           LET body == rstrip(lstrip(value.s)) IN
           IF body # <<>> /\ \A i \in 1..Len(body) : DigitValue(body[i]) >= 0
           THEN [err |-> "", val |-> Float(DecimalValue(body, 0))]
           ELSE [err |-> "ValueError", val |-> value]

-----------------------------------------------------------------------------
(* star.py *)

str_keys == {"id", "hip", "hd", "hr", "gl", "bf", "proper"}

name_preference == <<"proper", "bf", "gl", "hip", "hd", "hr">>

valid_keys ==
    {"id", "hip", "hd", "hr", "gl", "bf", "proper", "ra", "dec", "dist",
     "pmra", "pmdec", "rv", "mag", "absmag", "spect", "ci", "x", "y", "z",
     "vx", "vy", "vz", "rarad", "decrad", "pmrarad", "pmdecrad", "bayer",
     "flam", "con", "comp", "comp_primary", "base", "lum", "var", "var_min",
     "var_max"}

\* The attributes a Star starts with (star.py 50-86) and its neighbor list (97).
NewStar == [attrs |-> [k \in valid_keys |-> None], nearby_stars |-> <<>>]

\* A variant of the conversion that lets the ValueError of float() escape.
convert_strict(key, value) ==
    IF key \in str_keys THEN [err |-> "", val |-> value] ELSE float(value)

\* Lines 89-93: the value stored for a key; a ValueError of float() is
\* swallowed and the value kept as given, any other exception escapes.
convert(key, value) ==
    IF key \in str_keys THEN [err |-> "", val |-> value]
    ELSE LET r == float(value) IN
         IF r.err = "ValueError" THEN [err |-> "", val |-> value] ELSE r

\* Star.__init__'s loop over kwargs (a sequence of <<key, value>> in dict
\* order), from the attributes set so far: the attributes, or the exception.
RECURSIVE init_loop(_, _)
init_loop(kwargs, attrs) ==
    IF kwargs = <<>> THEN [err |-> "", attrs |-> attrs]
    ELSE LET key == Head(kwargs)[1]
             value == Head(kwargs)[2]
         IN  IF key \notin valid_keys
             THEN [err |-> "AssertionError", attrs |-> attrs]
             ELSE LET c == convert(key, value) IN
                  IF c.err # "" THEN [err |-> c.err, attrs |-> attrs]
                  ELSE init_loop(Tail(kwargs), [attrs EXCEPT ![key] = c.val])

\* Star(**kwargs): [err, star]; star is meaningful only when err = "".
Star(kwargs) ==
    LET r == init_loop(kwargs, NewStar.attrs) IN
    [err |-> r.err, star |-> [NewStar EXCEPT !.attrs = r.attrs]]

\* Star.name: the first truthy field in preference order, whitespace
\* normalised; None when no field is truthy (the property falls off its end).
RECURSIVE name_from(_, _)
name_from(star, i) ==
    IF i > Len(name_preference) THEN None
    ELSE LET value == star.attrs[name_preference[i]] IN
         IF Truthy(value) THEN Str(join(<<" ">>, split(value.s, <<>>, <<>>)))
         ELSE name_from(star, i + 1)

name(star) == name_from(star, 1)

-----------------------------------------------------------------------------
(* astrogate.py: distance *)

\* math.sin and math.cos of math.radians(deg), deg a multiple of 90
SinDeg(deg) ==
    CASE deg % 360 = 0 -> 0 [] deg % 360 = 90 -> 1
      [] deg % 360 = 180 -> 0 [] OTHER -> -1

CosDeg(deg) ==
    CASE deg % 360 = 0 -> 1 [] deg % 360 = 90 -> 0
      [] deg % 360 = 180 -> -1 [] OTHER -> 0

Min(a, b) == IF a <= b THEN a ELSE b
Max(a, b) == IF a >= b THEN a ELSE b

\* NearbyStars.distance(origin, target), as the square of the value returned
distance(origin, target) ==
    LET dec_a == origin.attrs["dec"].n
        ra_a == origin.attrs["ra"].n
        d_a == origin.attrs["dist"].n
        dec_b == target.attrs["dec"].n
        ra_b == target.attrs["ra"].n
        d_b == target.attrs["dist"].n
        cos_c == Min(1, Max(-1, SinDeg(dec_a) * SinDeg(dec_b)
                                  + CosDeg(dec_a) * CosDeg(dec_b) * CosDeg(ra_a - ra_b)))
    IN  IF cos_c = 1
        THEN (d_a - d_b) * (d_a - d_b)
        ELSE d_a * d_a + d_b * d_b - 2 * d_a * d_b * cos_c

-----------------------------------------------------------------------------
(* astrogate.py: the adjacency builder *)

Sol == Str(<<"S", "o", "l">>)

\* The (distance, star) tuple appended to a neighbor list, and a reference
\* to the Star object self.stars[i].  tag is the Python type of the object.
Pair(d, i) == [tag |-> "tuple", distance |-> d, star |-> i]
Ref(i) == [tag |-> "Star", distance |-> 0, star |-> i]

\* Lines 149-156: the branch taken for an origin whose proper is "Sol".
RECURSIVE nearby_shortcut(_, _)
nearby_shortcut(stars, i) ==
    IF i > Len(stars) THEN <<>>
    ELSE LET star == stars[i]
             rest == nearby_shortcut(stars, i + 1)
         IN  IF star.attrs["proper"] = Sol THEN rest
             ELSE IF star.attrs["dist"].n <= jump_parsecs
                  THEN <<Pair(star.attrs["dist"].n * star.attrs["dist"].n, i)>> \o rest
                  ELSE rest

\* Lines 158-166: the branch taken for every other origin.
RECURSIVE nearby_general(_, _, _)
nearby_general(stars, origin, i) ==
    IF i > Len(stars) THEN <<>>
    ELSE LET star == stars[i]
             rest == nearby_general(stars, origin, i + 1)
         IN  IF name(stars[origin]) = name(star) THEN rest
             ELSE IF distance(stars[origin], star) <= jump_parsecs * jump_parsecs
                  THEN <<Pair(distance(stars[origin], star), i)>> \o rest
                  ELSE rest

\* NearbyStars.nearby_stars(origin)
nearby_stars(stars, origin) ==
    IF stars[origin].attrs["proper"] = Sol
    THEN nearby_shortcut(stars, 1)
    ELSE nearby_general(stars, origin, 1)

\* The number of calls of distance() one call of nearby_stars(origin) makes.
distance_calls(stars, origin) ==
    IF stars[origin].attrs["proper"] = Sol THEN 0
    ELSE Cardinality({i \in 1..Len(stars) : name(stars[origin]) # name(stars[i])})

RECURSIVE Sum(_, _)
Sum(f, n) == IF n = 0 THEN 0 ELSE f[n] + Sum(f, n - 1)

-----------------------------------------------------------------------------
(* astrogate.py: load_hyg *)

\* row[key] of a csv.DictReader row
Get(row, key) == row[CHOOSE i \in 1..Len(row) : row[i][1] = key][2]

\* Lines 82-87: the stars appended from the rows, or the exception raised.
RECURSIVE read_rows(_, _)
read_rows(rs, acc) ==
    IF rs = <<>> THEN [err |-> "", stars |-> acc]
    ELSE LET d == float(Get(Head(rs), "dist")) IN
         IF d.err # "" THEN [err |-> d.err, stars |-> acc]
         ELSE IF d.val.n <= parsec_limit
              THEN LET made == Star(Head(rs)) IN
                   IF made.err # "" THEN [err |-> made.err, stars |-> acc]
                   ELSE read_rows(Tail(rs), Append(acc, made.star))
              ELSE read_rows(Tail(rs), acc)

\* sorted(self.stars, key=attrgetter("dist")): a stable sort.
RECURSIVE insert_sorted(_, _)
insert_sorted(sorted, star) ==
    IF sorted = <<>> THEN <<star>>
    ELSE IF sorted[Len(sorted)].attrs["dist"].n <= star.attrs["dist"].n
         THEN Append(sorted, star)
         ELSE Append(insert_sorted(SubSeq(sorted, 1, Len(sorted) - 1), star),
                     sorted[Len(sorted)])

RECURSIVE sort_by_dist(_, _)
sort_by_dist(stars, sorted) ==
    IF stars = <<>> THEN sorted
    ELSE sort_by_dist(Tail(stars), insert_sorted(sorted, Head(stars)))

\* set_nearby_stars
set_nearby_stars(stars) ==
    [i \in 1..Len(stars) |-> [stars[i] EXCEPT !.nearby_stars = nearby_stars(stars, i)]]

-----------------------------------------------------------------------------
(* astrogate.py: point-to-point search *)

\* obj.name: the display name of a Star; a tuple has no such attribute.
attr_name(stars, obj) ==
    IF obj.tag = "Star"
    THEN [err |-> "", val |-> name(stars[obj.star])]
    ELSE [err |-> "AttributeError", val |-> None]

\* What explore_path hands back: kind is "path" (a list, in path), "None",
\* or the exception that escaped; calls counts the explore_path calls made
\* and visits the neighbor-list items the loops took up.
Returned(path, calls, visits) ==
    [kind |-> "path", path |-> path, calls |-> calls, visits |-> visits]
ReturnedNone(calls, visits) ==
    [kind |-> "None", path |-> <<>>, calls |-> calls, visits |-> visits]
Raised(err, calls, visits) ==
    [kind |-> err, path |-> <<>>, calls |-> calls, visits |-> visits]

\* A base case that answers with both arguments.
base_path_both(origin, target) == <<origin.star, target.star>>

\* Line 240: return [origin]
base_path(origin, target) == <<origin.star>>

\* NearbyStars.explore_path(origin, target, visited); explore_loop is its
\* for loop (lines 243-247) from item i on, with the counts so far.
RECURSIVE explore_path(_, _, _, _)
RECURSIVE explore_loop(_, _, _, _, _, _, _)
explore_path(stars, origin, target, visited) ==
    IF attr_name(stars, origin).val = attr_name(stars, target).val
    THEN Returned(base_path(origin, target), 1, 0)
    ELSE explore_loop(stars, origin, target,
                      visited \cup {attr_name(stars, origin).val}, 1, 1, 0)

explore_loop(stars, origin, target, visited, i, calls, visits) ==
    LET nearby == stars[origin.star].nearby_stars IN
    IF i > Len(nearby) THEN ReturnedNone(calls, visits)
    ELSE LET nearby_star == nearby[i]
             nm == attr_name(stars, nearby_star)
         IN  IF nm.err # "" THEN Raised(nm.err, calls, visits + 1)
             ELSE IF nm.val \notin visited
                  THEN LET r == explore_path(stars, nearby_star, target, visited) IN
                       IF r.kind = "path"
                       THEN Returned(<<origin.star>> \o r.path,
                                     calls + r.calls, visits + 1 + r.visits)
                       ELSE IF r.kind = "None"
                            THEN explore_loop(stars, origin, target, visited, i + 1,
                                              calls + r.calls, visits + 1 + r.visits)
                            ELSE Raised(r.kind, calls + r.calls, visits + 1 + r.visits)
                  ELSE explore_loop(stars, origin, target, visited, i + 1,
                                    calls, visits + 1)

\* A lookup that falls back on the first star of the catalog.
find_or_first(stars, nm) ==
    IF \E i \in 1..Len(stars) : name(stars[i]) = nm
    THEN CHOOSE i \in 1..Len(stars) :
             /\ name(stars[i]) = nm
             /\ \A j \in 1..(i - 1) : name(stars[j]) # nm
    ELSE IF stars = <<>> THEN 0 ELSE 1

\* next(s for s in self.stars if s.name == nm): the first such star, or 0
\* when the generator is exhausted (StopIteration).
find(stars, nm) ==
    IF \E i \in 1..Len(stars) : name(stars[i]) = nm
    THEN CHOOSE i \in 1..Len(stars) :
             /\ name(stars[i]) = nm
             /\ \A j \in 1..(i - 1) : name(stars[j]) # nm
    ELSE 0

\* next(s for s in self.stars if s.proper == "Sol")
find_sol(stars) ==
    IF \E i \in 1..Len(stars) : stars[i].attrs["proper"] = Sol
    THEN CHOOSE i \in 1..Len(stars) :
             /\ stars[i].attrs["proper"] = Sol
             /\ \A j \in 1..(i - 1) : stars[j].attrs["proper"] # Sol
    ELSE 0

\* [s.name for s in path]
names_of(stars, path) == [k \in 1..Len(path) |-> name(stars[path[k]])]

(* astrogate.py: the tests of explore_paths *)

\* A branch that also ends where every neighbor is already visited.
no_way_on(stars, nearby, visited) ==
    \A k \in 1..Len(nearby) : name(stars[nearby[k].star]) \in visited

\* Line 182: `if not nearby_stars`
dead_end(stars, nearby, visited) == nearby = <<>>

\* A backtrack that leaves the name in the set.
keep(visited, nearby_name) == visited

\* Line 191: visited_stars.remove(nearby_name)
release(visited, nearby_name) == visited \ {nearby_name}

-----------------------------------------------------------------------------
(* The catalog files read *)

Chr(c) == Str(<<c>>)
Empty == Str(<<>>)
Spect == Str(<<"G", "2">>)

\* A row of the file under the header proper,bf,ra,dec,dist,spect.
Row(proper, bf, ra, dec, dist, spect) ==
    << <<"proper", proper>>, <<"bf", bf>>, <<"ra", ra>>, <<"dec", dec>>,
       <<"dist", dist>>, <<"spect", spect>> >>

Deg90 == Str(<<"9", "0">>)
Deg180 == Str(<<"1", "8", "0">>)

Rows ==
    { Row(Sol, Empty, Chr("0"), Chr("0"), Chr("0"), Spect),
      Row(Chr("A"), Empty, Chr("0"), Chr("0"), Chr("1"), Spect),
      Row(Str(<<" ", "A">>), Empty, Deg180, Chr("0"), Chr("1"), Spect),
      Row(Chr("C"), Empty, Chr("0"), Chr("0"), Chr("3"), Spect),
      Row(Empty, Chr("B"), Deg90, Chr("0"), Chr("1"), Spect),
      Row(Empty, Empty, Deg90, Chr("0"), Chr("2"), Spect),
      Row(Empty, Empty, Deg90, Chr("0"), Chr("3"), Spect),
      Row(Chr("F"), Empty, Chr("0"), Chr("0"), Chr("5"), Spect),
      Row(Empty, Sol, Deg180, Chr("0"), Chr("1"), Spect),
      Row(Chr("S"), Empty, Chr("0"), Chr("0"), Chr("1"), None),
      Row(Chr("K"), Empty, Chr("0"), Chr("0"), Chr("1"), Spect) \o << <<"colour", Chr("r")>> >> }

\* The files: up to MaxStars different rows, in any order.
Files ==
    { f \in UNION { [1..n -> Rows] : n \in 0..MaxStars } :
        \A i, j \in 1..Len(f) : i # j => f[i] # f[j] }

\* The names star_path is asked for.
Names == {Sol, Chr("A"), Chr("C"), Chr("Z")}

-----------------------------------------------------------------------------
(* State *)

VARIABLES
    rows,            \* the rows of the hygdata file
    pc,              \* "start", "failed", "ready", or "paths" inside star_paths
    error,           \* the exception that ended __init__ or star_paths, or ""
    stars,           \* self.stars
    call,            \* the last operation called and its arguments
    result,          \* what the last explore_path returned or raised
    printed,         \* the lists of names the last search printed
    all_paths,       \* star_paths: all_paths
    visited_stars,   \* star_paths: visited_stars
    stack,           \* star_paths: the active explore_paths calls, innermost last
    builder_calls,   \* calls of nearby_stars made by the last operation
    dist_calls       \* calls of distance made by the last operation

vars == <<rows, pc, error, stars, call, result, printed, all_paths,
          visited_stars, stack, builder_calls, dist_calls>>

NoCall == [op |-> "", origin |-> None, target |-> None, o |-> 0, t |-> 0]
NoResult == [kind |-> "", path |-> <<>>, calls |-> 0, visits |-> 0]

Init ==
    /\ rows \in Files
    /\ pc = "start"
    /\ error = ""
    /\ stars = <<>>
    /\ call = NoCall
    /\ result = NoResult
    /\ printed = <<>>
    /\ all_paths = <<>>
    /\ visited_stars = {}
    /\ stack = <<>>
    /\ builder_calls = 0
    /\ dist_calls = 0

\* NearbyStars(): __init__ and load_hyg, lines 61-92.
Load ==
    /\ pc = "start"
    /\ LET read == read_rows(rows, <<>>) IN
       IF read.err # ""
       THEN /\ pc' = "failed"
            /\ error' = read.err
            /\ stars' = read.stars
            /\ UNCHANGED <<builder_calls, dist_calls>>
       ELSE LET sorted == sort_by_dist(read.stars, <<>>) IN
            /\ pc' = "ready"
            /\ error' = ""
            /\ stars' = set_nearby_stars(sorted)
            /\ builder_calls' = Len(sorted)
            /\ dist_calls' = Sum([i \in 1..Len(sorted) |-> distance_calls(sorted, i)],
                                 Len(sorted))
    /\ UNCHANGED <<rows, call, result, printed, all_paths, visited_stars, stack>>

\* explore_path(origin, target) for two stars of the catalog.
ExplorePath ==
    /\ pc = "ready"
    /\ call = NoCall
    /\ \E o, t \in 1..Len(stars) :
          /\ call' = [op |-> "explore_path", origin |-> name(stars[o]),
                      target |-> name(stars[t]), o |-> o, t |-> t]
          /\ result' = explore_path(stars, Ref(o), Ref(t), {})
    /\ printed' = <<>>
    /\ error' = ""
    /\ builder_calls' = 0
    /\ dist_calls' = 0
    /\ UNCHANGED <<rows, pc, stars, all_paths, visited_stars, stack>>

\* star_path(origin_name, target_name), lines 219-223.
StarPath ==
    /\ pc = "ready"
    /\ call = NoCall
    /\ \E origin_name, target_name \in Names :
          LET o == find(stars, origin_name)
              t == IF o = 0 THEN 0 ELSE find(stars, target_name)
          IN  /\ call' = [op |-> "star_path", origin |-> origin_name,
                          target |-> target_name, o |-> o, t |-> t]
              /\ IF o = 0 \/ t = 0
                 THEN /\ result' = Raised("StopIteration", 0, 0)
                      /\ printed' = <<>>
                 ELSE LET path == explore_path(stars, Ref(o), Ref(t), {}) IN
                      /\ result' = path
                      /\ printed' = IF path.kind = "path"
                                    THEN <<names_of(stars, path.path)>>
                                    ELSE <<>>
    /\ error' = ""
    /\ builder_calls' = 0
    /\ dist_calls' = 0
    /\ UNCHANGED <<rows, pc, stars, all_paths, visited_stars, stack>>

-----------------------------------------------------------------------------
(* astrogate.py: exhaustive enumeration, one step of explore_paths at a time *)

\* An active explore_paths call: its path, the nearby_stars it computed, the
\* index of the loop item it is at, where it stands ("entry", "loop",
\* "called" while its recursive call runs, "return"), and the visited set it
\* was entered with.
Frame(path, entered) ==
    [path |-> path, nearby |-> <<>>, i |-> 0, at |-> "entry", entered |-> entered]

Top == stack[Len(stack)]
SetTop(frame) == [stack EXCEPT ![Len(stack)] = frame]

\* star_paths, lines 199-203: up to the first call of explore_paths.
StarPaths ==
    /\ pc = "ready"
    /\ call = NoCall
    /\ call' = [op |-> "star_paths", origin |-> Sol, target |-> None,
                o |-> find_sol(stars), t |-> 0]
    /\ result' = NoResult
    /\ printed' = <<>>
    /\ all_paths' = <<>>
    /\ builder_calls' = 0
    /\ dist_calls' = 0
    /\ IF find_sol(stars) = 0
       THEN /\ error' = "StopIteration"
            /\ UNCHANGED <<pc, visited_stars, stack>>
       ELSE /\ error' = ""
            /\ pc' = "paths"
            /\ visited_stars' = {name(stars[find_sol(stars)])}
            /\ stack' = <<Frame(<<find_sol(stars)>>, {name(stars[find_sol(stars)])})>>
    /\ UNCHANGED <<rows, stars>>

\* explore_paths, lines 179-184: the neighbors are computed, and a path
\* that ends here is recorded.
Enter ==
    /\ pc = "paths"
    /\ stack # <<>>
    /\ Top.at = "entry"
    /\ LET current_star == Top.path[Len(Top.path)]
           nearby == nearby_stars(stars, current_star)
       IN  /\ builder_calls' = builder_calls + 1
           /\ dist_calls' = dist_calls + distance_calls(stars, current_star)
           /\ IF dead_end(stars, nearby, visited_stars)
              THEN /\ all_paths' = Append(all_paths, Top.path)
                   /\ stack' = SetTop([Top EXCEPT !.nearby = nearby, !.at = "return"])
              ELSE /\ all_paths' = all_paths
                   /\ stack' = SetTop([Top EXCEPT !.nearby = nearby, !.at = "loop", !.i = 1])
    /\ UNCHANGED <<rows, pc, error, stars, call, result, printed, visited_stars>>

\* explore_paths, lines 186-190: the next item of the loop; an unvisited
\* neighbor is marked and explored, a visited one is passed over.
Step ==
    /\ pc = "paths"
    /\ stack # <<>>
    /\ Top.at = "loop"
    /\ IF Top.i > Len(Top.nearby)
       THEN /\ stack' = SetTop([Top EXCEPT !.at = "return"])
            /\ UNCHANGED visited_stars
       ELSE LET nearby_star == Top.nearby[Top.i].star
                nearby_name == name(stars[nearby_star])
            IN  IF nearby_name \notin visited_stars
                THEN /\ visited_stars' = visited_stars \cup {nearby_name}
                     /\ stack' = Append(SetTop([Top EXCEPT !.at = "called"]),
                                        Frame(Append(Top.path, nearby_star),
                                              visited_stars \cup {nearby_name}))
                ELSE /\ stack' = SetTop([Top EXCEPT !.i = Top.i + 1])
                     /\ UNCHANGED visited_stars
    /\ UNCHANGED <<rows, pc, error, stars, call, result, printed, all_paths,
                   builder_calls, dist_calls>>

\* explore_paths returns (line 184, or the end of the loop).  The caller
\* goes on at line 191; the outermost return takes star_paths through its
\* printing (lines 205-211).
Return ==
    /\ pc = "paths"
    /\ stack # <<>>
    /\ Top.at = "return"
    /\ IF Len(stack) = 1
       THEN /\ stack' = <<>>
            /\ pc' = "ready"
            /\ printed' = [k \in 1..Len(all_paths) |-> names_of(stars, all_paths[k])]
            /\ visited_stars' = visited_stars
       ELSE LET caller == stack[Len(stack) - 1]
                nearby_name == name(stars[caller.nearby[caller.i].star])
            IN  /\ stack' = [SubSeq(stack, 1, Len(stack) - 1) EXCEPT
                               ![Len(stack) - 1] = [caller EXCEPT !.at = "loop",
                                                                  !.i = caller.i + 1]]
                /\ visited_stars' = release(visited_stars, nearby_name)
                /\ UNCHANGED <<pc, printed>>
    /\ UNCHANGED <<rows, error, stars, call, result, all_paths, builder_calls, dist_calls>>

\* The caller has taken the outcome of the last operation; the object is
\* ready for the next call.
Finish ==
    /\ pc = "ready"
    /\ call # NoCall
    /\ call' = NoCall
    /\ result' = NoResult
    /\ printed' = <<>>
    /\ error' = ""
    /\ all_paths' = <<>>
    /\ visited_stars' = {}
    /\ UNCHANGED <<rows, pc, stars, stack, builder_calls, dist_calls>>

Next ==
    \/ Load
    \/ ExplorePath
    \/ StarPath
    \/ StarPaths
    \/ Enter
    \/ Step
    \/ Return
    \/ Finish

Spec == Init /\ [][Next]_vars

-----------------------------------------------------------------------------
(* Notions the properties are stated in *)

Built == pc \in {"ready", "paths"}
Searched == call.op \in {"explore_path", "star_path"} /\ call.o # 0 /\ call.t # 0
Last(path) == path[Len(path)]

\* b appears in a's stored neighbor list
Linked(a, b) ==
    \E k \in 1..Len(stars[a].nearby_stars) : stars[a].nearby_stars[k].star = b

\* the stars a chain of neighbor-list links leads to from the stars of set S
RECURSIVE Closure(_)
Closure(S) ==
    LET more == S \cup {b \in 1..Len(stars) : \E a \in S : Linked(a, b)} IN
    IF more = S THEN S ELSE Closure(more)

Reachable(o) == Closure({o})

WithinJump(a, b) == distance(stars[a], stars[b]) <= jump_parsecs * jump_parsecs

\* The depth-first search for the first neighbor branch, in neighbor-list
\* order, that reaches a star of the target's display name: the path, or
\* <<>> when no branch does.
RECURSIVE FirstBranch(_, _, _)
RECURSIVE FirstBranchFrom(_, _, _, _)
FirstBranch(o, t, visited) ==
    IF name(stars[o]) = name(stars[t]) THEN <<o>>
    ELSE FirstBranchFrom(o, t, visited \cup {name(stars[o])}, 1)

FirstBranchFrom(o, t, visited, i) ==
    IF i > Len(stars[o].nearby_stars) THEN <<>>
    ELSE LET nb == stars[o].nearby_stars[i].star
             sub == IF name(stars[nb]) \in visited THEN <<>>
                    ELSE FirstBranch(nb, t, visited)
         IN  IF sub # <<>> THEN <<o>> \o sub
             ELSE FirstBranchFrom(o, t, visited, i + 1)

\* the display names of the stars of a path, and whether none repeats
PathNames(path) == {name(stars[path[k]]) : k \in 1..Len(path)}
NoRepeat(path) == Cardinality(PathNames(path)) = Len(path)

\* the rows load_hyg retains, and what a retained row's value is stored as
Retained(row) == float(Get(row, "dist")).val.n <= parsec_limit
Keys(row) == {row[i][1] : i \in 1..Len(row)}
Stored(key, value) ==
    IF key \in str_keys \/ float(value).err # "" THEN value ELSE float(value).val
MadeFrom(star, row) ==
    /\ Keys(row) \subseteq valid_keys
    /\ \A i \in 1..Len(row) : star.attrs[row[i][1]] = Stored(row[i][1], row[i][2])
    /\ \A k \in valid_keys \ Keys(row) : star.attrs[k] = None

-----------------------------------------------------------------------------
(* Properties *)

\* C1: whenever explore_path has been called with an origin and a target of
\* different display names and the target is reachable from the origin by
\* neighbor-list links, it returned a path that begins with the origin, ends
\* at a star of the target's name, has every consecutive pair linked, and
\* is the first neighbor branch that reaches the target.
C1_PathFound ==
    (/\ Searched
     /\ name(stars[call.o]) # name(stars[call.t])
     /\ call.t \in Reachable(call.o))
    => /\ result.kind = "path"
       /\ result.path # <<>>
       /\ result.path[1] = call.o
       /\ name(stars[Last(result.path)]) = name(stars[call.t])
       /\ \A k \in 1..(Len(result.path) - 1) :
              Linked(result.path[k], result.path[k + 1])
       /\ result.path = FirstBranch(call.o, call.t, {})

\* C2: whenever explore_path has been called with a target whose display
\* name no star reachable from the origin bears, it returned None, also
\* when the origin has neighbors.
C2_NoPath ==
    (/\ Searched
     /\ \A s \in Reachable(call.o) : name(stars[s]) # name(stars[call.t]))
    => result.kind = "None"

\* C3: after the build, for distinct stars a and b, b is in a's neighbor
\* list exactly when distance(a, b) is within the jump range.
C3_Adjacency ==
    Built => \A a, b \in 1..Len(stars) :
                 a # b => (Linked(a, b) <=> WithinJump(a, b))

\* C4: the neighbor list the shortcut branch gives the star whose proper is
\* "Sol" is the list the general branch computes for it: same stars, same
\* distances, same order.
C4_Shortcut ==
    Built => \A o \in 1..Len(stars) :
                 stars[o].attrs["proper"] = Sol
                 => stars[o].nearby_stars = nearby_general(stars, o, 1)

\* C5: no path search, exhaustive or point-to-point, calls nearby_stars or
\* distance once the build has populated the neighbor lists.
C5_NoRecompute ==
    call.op \in {"explore_path", "star_path", "star_paths"}
    => builder_calls = 0 /\ dist_calls = 0

\* C6, as stated: no constructed record holds an unparsed string in a
\* non-identity field (such a construction would have ended in an error).
C6_FailFast ==
    \A i \in 1..Len(stars) : \A k \in valid_keys \ str_keys :
        stars[i].attrs[k].t # "str"

\* C6, amended: a row with a field name outside the recognized set ends the
\* construction in an error and yields no record; a string that does not
\* parse as a number in a non-identity field is no error: the record is
\* made and holds the string as given, a parsable string is stored as its
\* number and an identity field as given.
C6_Construction ==
    /\ \A i \in 1..Len(stars) :
           \E r \in 1..Len(rows) : Retained(rows[r]) /\ MadeFrom(stars[i], rows[r])
    /\ pc = "failed"
       => /\ error \in {"AssertionError", "TypeError"}
          /\ \E r \in 1..Len(rows) :
                \/ ~(Keys(rows[r]) \subseteq valid_keys)
                \/ \E i \in 1..Len(rows[r]) : rows[r][i][2] = None
    /\ Built
       => /\ \A r \in 1..Len(rows) :
                Retained(rows[r]) => Keys(rows[r]) \subseteq valid_keys
          /\ Len(stars) = Cardinality({r \in 1..Len(rows) : Retained(rows[r])})

\* C6 witness: a built catalog with a record that holds the unparsed string
\* of its spect field.
C6_Witness ==
    /\ pc = "ready"
    /\ \E i \in 1..Len(stars) : stars[i].attrs["spect"] = Spect

\* C7: the search from a star to itself returns the one-element path of
\* that star and takes up no neighbor, whatever its neighbor list.
C7_SelfPath ==
    (Searched /\ call.o = call.t)
    => /\ result.kind = "path"
       /\ result.path = <<call.o>>
       /\ result.visits = 0
       /\ result.calls = 1

\* C7 witness: a self search at a star that has neighbors.
C7_Witness ==
    /\ Searched
    /\ call.o = call.t
    /\ stars[call.o].nearby_stars # <<>>
    /\ result.path = <<call.o>>

\* C8: a star_path call whose origin name or target name no record bears
\* ends in an error before any search step, produces and prints no path,
\* and leaves the catalog and every neighbor list as they were.
C8_NotFound ==
    [][(/\ call'.op = "star_path"
        /\ \/ \A i \in 1..Len(stars') : name(stars'[i]) # call'.origin
           \/ \A i \in 1..Len(stars') : name(stars'[i]) # call'.target)
       => /\ result'.kind = "StopIteration"
          /\ result'.calls = 0
          /\ result'.visits = 0
          /\ result'.path = <<>>
          /\ printed' = <<>>
          /\ stars' = stars]_vars

\* C8 witness: star_path on a catalog that has the origin and neighbors for
\* it, but no record of the target name.
C8_Witness ==
    /\ call.op = "star_path"
    /\ \E i \in 1..Len(stars) :
          name(stars[i]) = call.origin /\ stars[i].nearby_stars # <<>>
    /\ \A i \in 1..Len(stars) : name(stars[i]) # call.target
    /\ result.kind = "StopIteration"

\* C9: at every entry to explore_paths the visited set is the set of display
\* names of the current path, no path explored or recorded repeats a name,
\* and when a call returns the visited set is what it was at its entry.
C9_Visited ==
    /\ \A k \in 1..Len(all_paths) : NoRepeat(all_paths[k])
    /\ (pc = "paths" /\ stack # <<>>)
       => /\ \A d \in 1..Len(stack) : NoRepeat(stack[d].path)
          /\ Top.at = "entry"
             => visited_stars = PathNames(Top.path) /\ Top.entered = visited_stars
          /\ Top.at = "return" => visited_stars = Top.entered

\* C9 witness: the call entered for the second neighbor of Sol has reached,
\* two jumps out, the star that was the first neighbor explored and released.
C9_Witness ==
    /\ pc = "paths"
    /\ Len(stack) = 3
    /\ Top.at = "entry"
    /\ stack[1].i = 2
    /\ Last(Top.path) = stack[1].nearby[1].star
    /\ visited_stars = PathNames(Top.path)

\* the catalogs of C10: Sol at catalog distance 0, display names all different
Symmetric ==
    /\ \A i \in 1..Len(stars) :
          stars[i].attrs["proper"] = Sol => stars[i].attrs["dist"].n = 0
    /\ \A i, j \in 1..Len(stars) : i # j => name(stars[i]) # name(stars[j])

====
